---- MODULE Spec2Model ----
(***************************************************************************)
(* Model of fedjax/datasets/stackoverflow.py: the split loader, the        *)
(* per-client preprocessing, the default vocabulary reader and the         *)
(* StackoverflowTokenizer with its batch transform.                        *)
(*                                                                         *)
(* Strings are sequences of one-character strings.  Python's None is the   *)
(* empty tuple and a present optional value v is the one-tuple <<v>>.      *)
(***************************************************************************)
EXTENDS Integers, Sequences, FiniteSets, TLC

VARIABLES
    table,        \* StackoverflowTokenizer._table: None, or <<[keys, num_oov_buckets]>>
    ctor,         \* the arguments and outcome of the last StackoverflowTokenizer(...) call
    fn,           \* max_length captured by the closure as_preprocess_batch returned, or None
    call,         \* the last call of that closure: its examples and its result
    word_count,   \* lines of the stackoverflow.word_count file default_vocab reads
    vocab_ret,    \* the last default_vocab call: its argument and its outcome
    split_ret,    \* the last load_split call: its arguments, its downloads, its outcome
    data,         \* the load_data call in progress: position, handles, downloads, outcome
    client_ret    \* the last preprocess_client call: its arguments and its result

vars == <<table, ctor, fn, call, word_count, vocab_ret, split_ret, data, client_ret>>

None == << >>
Some(v) == <<v>>

----------------------------------------------------------------------------
(* Bounds of the model. *)

MaxChars == 3         \* characters in one batch, all its token strings together
MaxBatch == 2         \* examples in one batch handed to the transform
MaxLength == 4        \* max_length values 0..MaxLength
MaxBuckets == 2       \* num_oov_buckets values 0..MaxBuckets
MaxVocabSize == 2     \* vocab_size values None, 0..MaxVocabSize
MaxFileLines == 2     \* lines in the word_count file
MaxClientExamples == 2 \* examples in one client record

Chars == {"a", "b", " "}

SeqsUpTo(S, n) == UNION {[1..k -> S] : k \in 0..n}

Strings == SeqsUpTo(Chars, MaxChars)

----------------------------------------------------------------------------
(* The special ids of StackoverflowTokenizer. *)

PAD == 0
BOS == 1
EOS == 2
IdOffset == 3

----------------------------------------------------------------------------
(* Python / TensorFlow helpers. *)

Take(s, n) == SubSeq(s, 1, IF n < Len(s) THEN n ELSE Len(s))

Range(s) == {s[i] : i \in DOMAIN s}

\* The index of the first element of s that is in seps, 0 when there is none.
FirstIn(s, seps) ==
    IF \E i \in DOMAIN s : s[i] \in seps
    THEN CHOOSE i \in DOMAIN s : s[i] \in seps /\ \A j \in 1..(i - 1) : s[j] \notin seps
    ELSE 0

\* tf.strings.split(s, sep=' ') on one string: consecutive separators are not
\* grouped and delimit empty words; the empty string gives one empty word.
RECURSIVE StringsSplit(_, _)
StringsSplit(s, sep) ==
    LET p == FirstIn(s, {sep})
    IN IF p = 0 THEN <<s>>
       ELSE <<SubSeq(s, 1, p - 1)>> \o StringsSplit(SubSeq(s, p + 1, Len(s)), sep)

Whitespace == {" ", "\t"}

\* str.split() with no separator: runs of whitespace are one separator and
\* no empty word is produced.
RECURSIVE LineSplit(_)
LineSplit(s) ==
    IF s = << >> THEN << >>
    ELSE IF s[1] \in Whitespace THEN LineSplit(Tail(s))
    ELSE LET p == FirstIn(s, Whitespace)
         IN IF p = 0 THEN <<s>>
            ELSE <<SubSeq(s, 1, p - 1)>> \o LineSplit(SubSeq(s, p, Len(s)))

----------------------------------------------------------------------------
(* default_vocab *)

\* default_vocab reading the whole file, whatever vocab_size is.
default_vocab_AllLines(file, vocab_size) ==
    IF file = None THEN [raised |-> "IOError", vocab |-> << >>]
    ELSE IF \E i \in DOMAIN file[1] : Len(LineSplit(file[1][i])) # 2
         THEN [raised |-> "ValueError", vocab |-> << >>]
         ELSE [raised |-> "",
               vocab |-> [i \in DOMAIN file[1] |-> LineSplit(file[1][i])[1]]]

\* default_vocab(vocab_size) on the file `file` (None when it cannot be read):
\* islice(f, vocab_size) takes every line when vocab_size is None; each line
\* must unpack into exactly two fields, `word, _ = line.split()`.
default_vocab(file, vocab_size) ==
    IF file = None THEN [raised |-> "IOError", vocab |-> << >>]
    ELSE LET lines == IF vocab_size = None THEN file[1] ELSE Take(file[1], vocab_size[1])
         IN IF \E i \in DOMAIN lines : Len(LineSplit(lines[i])) # 2
            THEN [raised |-> "ValueError", vocab |-> << >>]
            ELSE [raised |-> "",
                  vocab |-> [i \in DOMAIN lines |-> LineSplit(lines[i])[1]]]

----------------------------------------------------------------------------
(* StackoverflowTokenizer *)

\* Stand-in for the library's string fingerprint: a fixed function of the word.
CharCode(c) == IF c = "a" THEN 97 ELSE IF c = "b" THEN 98 ELSE 32

RECURSIVE Fingerprint(_)
Fingerprint(w) ==
    IF w = << >> THEN 7 ELSE (31 * Fingerprint(SubSeq(w, 1, Len(w) - 1)) + CharCode(w[Len(w)])) % 65536

\* StaticVocabularyTable.lookup: the value stored for a key, else the table
\* size plus the word's bucket.
TableLookup(tbl, word) ==
    IF \E i \in DOMAIN tbl.keys : tbl.keys[i] = word
    THEN (CHOOSE i \in DOMAIN tbl.keys : tbl.keys[i] = word) - 1
    ELSE Len(tbl.keys) + (Fingerprint(word) % tbl.num_oov_buckets)

\* The vocabulary __init__ hands to the table (lines 164-168).
InitVocab(file, vocab, vocab_size) ==
    IF vocab = None THEN default_vocab(file, vocab_size)
    ELSE IF vocab_size # None THEN [raised |-> "", vocab |-> Take(vocab[1], vocab_size[1])]
    ELSE [raised |-> "", vocab |-> vocab[1]]

HasDuplicates(s) == \E i, j \in DOMAIN s : i < j /\ s[i] = s[j]

\* RowIds without the offset that reserves the special ids.
RowIds_NoOffset(tbl, s) ==
    LET words == StringsSplit(s, " ")
    IN <<BOS>> \o [i \in DOMAIN words |-> TableLookup(tbl, words[i])] \o <<EOS>>

\* token_to_ids on one token string: [BOS, id(w1)+3, ..., id(wk)+3, EOS].
RowIds(tbl, s) ==
    LET words == StringsSplit(s, " ")
    IN <<BOS>> \o [i \in DOMAIN words |-> TableLookup(tbl, words[i]) + IdOffset] \o <<EOS>>

\* to_tensor that pads short rows and leaves long rows uncut.
ToTensorRow_NoTruncate(row, max_length) ==
    [i \in 1..(IF Len(row) > max_length THEN Len(row) ELSE max_length) |->
       IF i <= Len(row) THEN row[i] ELSE PAD]

\* RaggedTensor.to_tensor(PAD, shape=[N, max_length]) on one row.
ToTensorRow(row, max_length) ==
    [i \in 1..max_length |-> IF i <= Len(row) THEN row[i] ELSE PAD]

token_to_ids(tbl, tokens, max_length) ==
    [x |-> [n \in DOMAIN tokens |->
              LET ids == RowIds(tbl, tokens[n])
              IN ToTensorRow(SubSeq(ids, 1, Len(ids) - 1), max_length)],
     y |-> [n \in DOMAIN tokens |->
              LET ids == RowIds(tbl, tokens[n])
              IN ToTensorRow(SubSeq(ids, 2, Len(ids)), max_length)]]

\* preprocess_batch that copies every input field but tokens to its result.
preprocess_batch_KeepFields(tbl, max_length, examples) ==
    IF "tokens" \notin DOMAIN examples THEN [raised |-> "KeyError", result |-> << >>]
    ELSE LET xy == token_to_ids(tbl, examples["tokens"], max_length)
             keys == {"x", "y"} \cup (DOMAIN examples \ {"tokens"})
         IN [raised |-> "",
             result |-> [k \in keys |->
                           IF k = "x" THEN xy.x
                           ELSE IF k = "y" THEN xy.y
                           ELSE examples[k]]]

\* The closure preprocess_batch (lines 208-215).
preprocess_batch(tbl, max_length, examples) ==
    IF "tokens" \notin DOMAIN examples THEN [raised |-> "KeyError", result |-> << >>]
    ELSE LET xy == token_to_ids(tbl, examples["tokens"], max_length)
             keys == {"x", "y"} \cup ({"domain_id"} \cap DOMAIN examples)
         IN [raised |-> "",
             result |-> [k \in keys |->
                           IF k = "x" THEN xy.x
                           ELSE IF k = "y" THEN xy.y
                           ELSE examples["domain_id"]]]

----------------------------------------------------------------------------
(* Inputs of the tokenizer. *)

VocabLists ==
    { << <<"a">>, <<"b">> >>,
      << <<"a", "b">>, <<"b">>, <<"a">> >>,
      << <<"a">>, <<"a">> >> }

VocabArgs == {None} \cup {Some(v) : v \in VocabLists}

VocabSizes == {None} \cup {Some(n) : n \in 0..MaxVocabSize}

\* A well-formed word_count file: "<word> <count>" or "<word>\t<count>".
GoodFile == << <<"a", " ", "5">>, <<"b", "\t", "3">>, <<"a", "b", " ", "1">> >>

\* The batches of n token strings with at most c characters in all.
RECURSIVE BatchesOf(_, _)
BatchesOf(n, c) ==
    IF n = 0 THEN {<< >>}
    ELSE UNION { {<<s>> \o b : b \in BatchesOf(n - 1, c - Len(s))} : s \in SeqsUpTo(Chars, c) }

Batches == UNION {BatchesOf(n, MaxChars) : n \in 0..MaxBatch}

DomainIds(n) == [i \in 1..n |-> i % 2]
Scores(n) == [i \in 1..n |-> 10 + i]

\* The records handed to the transform: tokens, with or without domain_id
\* and another field; and a record that lacks tokens.
ExamplesOf(tokens) ==
    LET n == Len(tokens)
    IN { [k \in {"tokens"} |-> tokens],
         [k \in {"tokens", "domain_id", "score"} |->
            IF k = "tokens" THEN tokens
            ELSE IF k = "domain_id" THEN DomainIds(n) ELSE Scores(n)] }

ExamplesInputs ==
    UNION {ExamplesOf(t) : t \in Batches}
    \cup {[k \in {"domain_id"} |-> DomainIds(n)] : n \in 0..MaxBatch}

----------------------------------------------------------------------------
(* Actions of the tokenizer. *)

OtherIdle ==
    /\ vocab_ret = None
    /\ split_ret = None
    /\ data = [pc |-> "idle"]
    /\ client_ret = None

InitTokenizer ==
    /\ table = None
    /\ ctor = None
    /\ fn = None
    /\ call = None
    /\ word_count = Some(GoodFile)
    /\ OtherIdle

\* StackoverflowTokenizer(vocab, vocab_size, num_oov_buckets).  The table
\* constructor rejects num_oov_buckets <= 0 and duplicate keys; an empty key
\* list has no string dtype, which the library may reject.
TokenizerInit ==
    /\ table = None
    /\ \E vocab \in VocabArgs, vocab_size \in VocabSizes, num_oov_buckets \in 0..MaxBuckets,
          empty_ok \in BOOLEAN :
          LET v == InitVocab(word_count, vocab, vocab_size)
              raised == IF v.raised # "" THEN v.raised
                        ELSE IF num_oov_buckets <= 0 THEN "ValueError"
                        ELSE IF v.vocab = << >> /\ ~empty_ok THEN "TypeError"
                        ELSE IF HasDuplicates(v.vocab) THEN "FailedPreconditionError"
                        ELSE ""
          IN /\ (empty_ok => v.raised = "" /\ v.vocab = << >>)
             /\ ctor' = Some([vocab |-> vocab, vocab_size |-> vocab_size,
                              num_oov_buckets |-> num_oov_buckets, raised |-> raised])
             /\ table' = IF raised = "" 
                         THEN Some([keys |-> v.vocab, num_oov_buckets |-> num_oov_buckets])
                         ELSE None
    /\ UNCHANGED <<fn, call, word_count, vocab_ret, split_ret, data, client_ret>>

\* tokenizer.as_preprocess_batch(max_length): a new closure over max_length.
as_preprocess_batch ==
    /\ table # None
    /\ call = None
    /\ \E max_length \in 0..MaxLength : fn' = Some(max_length)
    /\ UNCHANGED <<table, ctor, call, word_count, vocab_ret, split_ret, data, client_ret>>

\* A call of the closure that adds the out-of-vocabulary words it meets to
\* the table.
PreprocessBatchCall_Learns ==
    /\ fn # None
    /\ call = None
    /\ \E examples \in ExamplesInputs :
          LET r == preprocess_batch(table[1], fn[1], examples)
              seen == IF "tokens" \in DOMAIN examples
                      THEN UNION {Range(StringsSplit(examples["tokens"][n], " ")) :
                                    n \in DOMAIN examples["tokens"]}
                      ELSE {}
              new == seen \ Range(table[1].keys)
          IN /\ call' = Some([examples |-> examples, raised |-> r.raised,
                              result |-> r.result])
             /\ table' = IF new = {} THEN table
                         ELSE Some([table[1] EXCEPT
                                      !.keys = Append(@, CHOOSE w \in new : TRUE)])
    /\ UNCHANGED <<ctor, fn, word_count, vocab_ret, split_ret, data, client_ret>>

\* One call of the closure on a record of examples.
PreprocessBatchCall ==
    /\ fn # None
    /\ call = None
    /\ \E examples \in ExamplesInputs :
          LET r == preprocess_batch(table[1], fn[1], examples)
          IN call' = Some([examples |-> examples, raised |-> r.raised, result |-> r.result])
    /\ UNCHANGED <<table, ctor, fn, word_count, vocab_ret, split_ret, data, client_ret>>

\* The caller takes the result; the closure can be called again.
PreprocessBatchReturn ==
    /\ call # None
    /\ call' = None
    /\ UNCHANGED <<table, ctor, fn, word_count, vocab_ret, split_ret, data, client_ret>>

NextTokenizer ==
    \/ TokenizerInit
    \/ as_preprocess_batch
    \/ PreprocessBatchCall
    \/ PreprocessBatchReturn

SpecTokenizer == InitTokenizer /\ [][NextTokenizer]_vars

----------------------------------------------------------------------------
(* Properties of the tokenizer, checked under SpecTokenizer. *)

CallOk == call # None /\ call[1].raised = ""

Tokens == call[1].examples["tokens"]

\* The words of the model's alphabet: strings without a space.
Words == SeqsUpTo(Chars \ {" "}, MaxChars)

\* The id the transform gives the single word w: the entry between BOS and EOS.
WordId(w) == RowIds(table[1], w)[2]

\* C1: for every batch and every max_length, each example whose string
\* splits on single spaces into w1..wk has ids = [BOS, id(w1), ..., id(wk),
\* EOS]; x is ids without its last entry and y is ids without its first,
\* each cut to max_length entries and right-padded with PAD to exactly
\* max_length; vocab ['a','b'], one bucket, max_length 4, 'a b' gives
\* x = [1,3,4,0] and y = [3,4,2,0].
C1_Rows ==
    CallOk =>
      LET m == fn[1]
          out == call[1].result
      IN /\ Len(out["x"]) = Len(Tokens)
         /\ Len(out["y"]) = Len(Tokens)
         /\ \A n \in DOMAIN Tokens :
              LET w == StringsSplit(Tokens[n], " ")
                  k == Len(w)
                  ids == [i \in 1..(k + 2) |->
                            IF i = 1 THEN 1
                            ELSE IF i = k + 2 THEN 2
                            ELSE TableLookup(table[1], w[i - 1]) + 3]
              IN /\ Len(out["x"][n]) = m
                 /\ Len(out["y"][n]) = m
                 /\ \A i \in 1..m :
                      /\ out["x"][n][i] = IF i <= k + 1 THEN ids[i] ELSE 0
                      /\ out["y"][n][i] = IF i <= k + 1 THEN ids[i + 1] ELSE 0

C1_Example ==
    /\ CallOk
    /\ table[1] = [keys |-> << <<"a">>, <<"b">> >>, num_oov_buckets |-> 1]
    /\ fn = Some(4)
    /\ Tokens = << <<"a", " ", "b">> >>

C1_Thm ==
    /\ C1_Rows
    /\ C1_Example =>
         /\ call[1].result["x"] = << <<1, 3, 4, 0>> >>
         /\ call[1].result["y"] = << <<3, 4, 2, 0>> >>

C1_Witness ==
    /\ C1_Example
    /\ call[1].result["x"] = << <<1, 3, 4, 0>> >>
    /\ call[1].result["y"] = << <<3, 4, 2, 0>> >>

\* The words of the well-formed word_count file, in file order.
FileWords == << <<"a">>, <<"b">>, <<"a", "b">> >>

\* The effective vocabulary of the constructed tokenizer, from the
\* constructor's arguments: the supplied list cut to its first vocab_size
\* words, or the default vocabulary.
EffectiveVocab ==
    LET a == ctor[1]
        whole == IF a.vocab = None THEN FileWords ELSE a.vocab[1]
    IN IF a.vocab_size = None THEN whole
       ELSE [i \in 1..(IF a.vocab_size[1] < Len(whole) THEN a.vocab_size[1] ELSE Len(whole))
               |-> whole[i]]

\* C2: with V words in the effective vocabulary and B buckets, the word at
\* 0-based position i gets id i+3, every other word gets an id in
\* [V+3, V+3+B), so no word gets PAD, BOS or EOS, and every element of x and
\* y lies in [0, V+3+B).
C2_Thm ==
    table # None =>
      LET V == Len(EffectiveVocab)
          B == ctor[1].num_oov_buckets
          \* every word when no call is under way, else the words of the call
          looked == IF CallOk
                    THEN UNION {Range(StringsSplit(Tokens[n], " ")) : n \in DOMAIN Tokens}
                    ELSE Words
      IN /\ \A i \in 1..V : WordId(EffectiveVocab[i]) = (i - 1) + 3
         /\ \A w \in looked :
              /\ (w \notin Range(EffectiveVocab)) =>
                   (WordId(w) >= V + 3 /\ WordId(w) < V + 3 + B)
              /\ WordId(w) \notin {0, 1, 2}
         /\ CallOk =>
              \A k \in {"x", "y"} : \A n \in DOMAIN Tokens :
                \A i \in DOMAIN call[1].result[k][n] :
                  /\ call[1].result[k][n][i] >= 0
                  /\ call[1].result[k][n][i] < V + 3 + B

\* A call on a row with an in-vocabulary word and an out-of-vocabulary word,
\* with two buckets.
C2_Witness ==
    /\ CallOk
    /\ ctor[1].num_oov_buckets = 2
    /\ table[1].keys = << <<"a">> >>
    /\ Tokens = << <<"a", " ", "b">> >>
    /\ fn = Some(3)
    /\ call[1].result["y"][1][2] >= 4

\* C4: if a vocabulary list is passed, vocab_size is ignored: the table is
\* built from the whole supplied list and every word of it is in-vocabulary.
C4_Claim ==
    (table # None /\ ctor[1].vocab # None) =>
      /\ table[1].keys = ctor[1].vocab[1]
      /\ \A i \in DOMAIN ctor[1].vocab[1] :
           WordId(ctor[1].vocab[1][i]) < Len(table[1].keys) + 3

\* C5: an empty token string yields [BOS, EOS] only, so x = [1, 2, PAD, ...]
\* and y = [2, PAD, ...], each max_length long; an empty batch yields x and y
\* with zero rows; no error in either case.
C5_Claim ==
    (call # None /\ "tokens" \in DOMAIN call[1].examples) =>
      /\ call[1].raised = ""
      /\ Len(Tokens) = 0 => (Len(call[1].result["x"]) = 0 /\ Len(call[1].result["y"]) = 0)
      /\ \A n \in DOMAIN Tokens :
           Tokens[n] = << >> =>
             /\ call[1].result["x"][n] =
                  [i \in 1..fn[1] |-> IF i = 1 THEN 1 ELSE IF i = 2 THEN 2 ELSE 0]
             /\ call[1].result["y"][n] =
                  [i \in 1..fn[1] |-> IF i = 1 THEN 2 ELSE 0]

\* C6: the output has exactly the keys x and y, plus domain_id if and only
\* if the input has domain_id; domain_id is passed through unchanged and no
\* other input field appears.
C6_Thm ==
    CallOk =>
      /\ DOMAIN call[1].result =
           IF "domain_id" \in DOMAIN call[1].examples THEN {"x", "y", "domain_id"}
           ELSE {"x", "y"}
      /\ "domain_id" \in DOMAIN call[1].examples =>
           call[1].result["domain_id"] = call[1].examples["domain_id"]

C6_Witness ==
    /\ CallOk
    /\ DOMAIN call[1].examples = {"tokens", "domain_id", "score"}
    /\ Len(Tokens) = 2
    /\ call[1].result["domain_id"] = <<1, 0>>
    /\ DOMAIN call[1].result = {"x", "y", "domain_id"}

\* C8: the tokenizer's table never changes once constructed, whatever
\* closures are created and called, so a word keeps its id from call to call.
C8_Thm == [][table # None => table' = table]_vars

\* A call that looked up an out-of-vocabulary word.
C8_Witness ==
    /\ CallOk
    /\ \E n \in DOMAIN Tokens :
         \E i \in DOMAIN StringsSplit(Tokens[n], " ") :
           StringsSplit(Tokens[n], " ")[i] \notin Range(table[1].keys)

----------------------------------------------------------------------------
(* default_vocab called on its own, checked under SpecVocab. *)

\* Lines a word_count file may hold: "<word> <count>", "<word>\t<count>",
\* and lines with one field or three.
Lines ==
    { <<"a", " ", "5">>,
      <<"b", "\t", "3">>,
      <<"a", "b", " ", "1">>,
      <<"b">>,
      <<"a", " ", "1", " ", "2">> }

WordCountFiles == {None} \cup {Some(f) : f \in SeqsUpTo(Lines, MaxFileLines)}

InitVocabSpec ==
    /\ word_count \in WordCountFiles
    /\ vocab_ret = None
    /\ table = None
    /\ ctor = None
    /\ fn = None
    /\ call = None
    /\ split_ret = None
    /\ data = [pc |-> "idle"]
    /\ client_ret = None

\* One call default_vocab(vocab_size).
DefaultVocabCall ==
    /\ \E vocab_size \in VocabSizes :
          LET r == default_vocab(word_count, vocab_size)
          IN vocab_ret' = Some([vocab_size |-> vocab_size, raised |-> r.raised,
                                vocab |-> r.vocab])
    /\ UNCHANGED <<table, ctor, fn, call, word_count, split_ret, data, client_ret>>

NextVocab == DefaultVocabCall

SpecVocab == InitVocabSpec /\ [][NextVocab]_vars

\* The whitespace-separated tokens of a line, as the claim reads them: the
\* maximal runs of characters that are not whitespace.
FieldStarts(line) ==
    {i \in DOMAIN line : line[i] \notin Whitespace /\ (i = 1 \/ line[i - 1] \in Whitespace)}

FirstToken(line) ==
    LET b == CHOOSE i \in FieldStarts(line) : \A j \in FieldStarts(line) : i <= j
        e == CHOOSE j \in b..Len(line) :
               /\ \A q \in b..j : line[q] \notin Whitespace
               /\ (j = Len(line) \/ line[j + 1] \in Whitespace)
    IN SubSeq(line, b, e)

Min(a, b) == IF a < b THEN a ELSE b

VocabCallOf(n) == vocab_ret # None /\ vocab_ret[1].vocab_size = Some(n) /\ word_count # None

\* C9 as stated: for every file whose lines are whitespace-separated with the
\* word as first token (read here as: every line holds the word and at least
\* one more token), default_vocab(n) returns exactly min(n, lines) words, the
\* first token of each of the first n lines, in file order.
C9_Claim ==
    \A n \in 0..MaxVocabSize :
      (VocabCallOf(n) /\ \A i \in DOMAIN word_count[1] :
                           Cardinality(FieldStarts(word_count[1][i])) >= 2) =>
        /\ vocab_ret[1].raised = ""
        /\ vocab_ret[1].vocab =
             [i \in 1..Min(n, Len(word_count[1])) |-> FirstToken(word_count[1][i])]

\* C9 amended: the same result for every file whose first n lines each hold
\* exactly two whitespace-separated tokens; a line among them with another
\* number of tokens makes default_vocab raise ValueError.
C9_Thm ==
    \A n \in 0..MaxVocabSize :
      VocabCallOf(n) =>
        LET k == Min(n, Len(word_count[1]))
            two == \A i \in 1..k : Cardinality(FieldStarts(word_count[1][i])) = 2
        IN /\ two =>
                /\ vocab_ret[1].raised = ""
                /\ vocab_ret[1].vocab = [i \in 1..k |-> FirstToken(word_count[1][i])]
           /\ ~two => vocab_ret[1].raised = "ValueError"

\* A call that stops short of a malformed second line.
C9_Witness ==
    /\ VocabCallOf(1)
    /\ word_count[1] = << <<"a", "b", " ", "1">>, <<"b">> >>
    /\ vocab_ret[1].vocab = << <<"a", "b">> >>

----------------------------------------------------------------------------
(* load_split and load_data, checked under SpecLoader. *)

SPLITS == <<"train", "held_out", "test">>

SplitArgs == Range(SPLITS) \cup {"validation", ""}
ModeArgs == {"sqlite", "tff"}
CacheDirArgs == {None, Some("/tmp/cache")}

Url(split) ==
    <<"https://storage.googleapis.com/gresearch/fedjax/stackoverflow/stackoverflow_",
      split, ".sqlite">>

\* downloads.maybe_download(url, cache_dir): the local file it returns.
LocalPath(url, cache_dir) == [url |-> url, cache_dir |-> cache_dir]

\* SQLiteFederatedData.new(path): a handle with no client transform yet.
NewHandle(path) == [path |-> path, client_fns |-> << >>]

\* handle.preprocess_client(f): a new handle with f added.
WithPreprocessClient(handle, f) ==
    [handle EXCEPT !.client_fns = Append(@, f)]

\* load_split that downloads before it looks at mode.
load_split_DownloadFirst(split, mode, cache_dir, download_ok) ==
    IF split \notin Range(SPLITS)
    THEN [raised |-> "ValueError", downloads |-> << >>, handle |-> None]
    ELSE LET url == Url(split)
             made == <<[url |-> url, cache_dir |-> cache_dir]>>
         IN IF ~download_ok
            THEN [raised |-> "DownloadError", downloads |-> made, handle |-> None]
            ELSE IF mode = "sqlite"
            THEN [raised |-> "", downloads |-> made,
                  handle |-> Some(NewHandle(LocalPath(url, cache_dir)))]
            ELSE [raised |-> "ValueError", downloads |-> made, handle |-> None]

\* load_split(split, mode, cache_dir); download_ok is whether maybe_download
\* returns rather than raises.  downloads lists the maybe_download calls made.
load_split(split, mode, cache_dir, download_ok) ==
    IF split \notin Range(SPLITS)
    THEN [raised |-> "ValueError", downloads |-> << >>, handle |-> None]
    ELSE IF cache_dir # None /\ mode # "sqlite"
    THEN [raised |-> "ValueError", downloads |-> << >>, handle |-> None]
    ELSE IF mode = "sqlite"
    THEN LET url == Url(split)
             made == <<[url |-> url, cache_dir |-> cache_dir]>>
         IN IF download_ok
            THEN [raised |-> "", downloads |-> made,
                  handle |-> Some(NewHandle(LocalPath(url, cache_dir)))]
            ELSE [raised |-> "DownloadError", downloads |-> made, handle |-> None]
    ELSE [raised |-> "ValueError", downloads |-> << >>, handle |-> None]

InitLoader ==
    /\ split_ret = None
    /\ data = [pc |-> "idle"]
    /\ table = None
    /\ ctor = None
    /\ fn = None
    /\ call = None
    /\ word_count = Some(GoodFile)
    /\ vocab_ret = None
    /\ client_ret = None

\* One call load_split(split, mode, cache_dir).
LoadSplitCall ==
    /\ \E split \in SplitArgs, mode \in ModeArgs, cache_dir \in CacheDirArgs,
          download_ok \in BOOLEAN :
          LET r == load_split(split, mode, cache_dir, download_ok)
          IN split_ret' = Some([split |-> split, mode |-> mode, cache_dir |-> cache_dir,
                                download_ok |-> download_ok,
                                raised |-> r.raised, downloads |-> r.downloads,
                                handle |-> r.handle])
    /\ UNCHANGED <<table, ctor, fn, call, word_count, vocab_ret, data, client_ret>>

\* load_data(mode, cache_dir) is entered.
LoadDataCall ==
    /\ data.pc = "idle"
    /\ \E mode \in ModeArgs, cache_dir \in CacheDirArgs :
          data' = [pc |-> "load", mode |-> mode, cache_dir |-> cache_dir,
                   handles |-> << >>, downloads |-> << >>, raised |-> "", ret |-> None]
    /\ UNCHANGED <<table, ctor, fn, call, word_count, vocab_ret, split_ret, client_ret>>

\* load_data that goes on to the next split after a failed load.
LoadDataLoad_KeepsGoing ==
    /\ data.pc = "load"
    /\ \E download_ok \in BOOLEAN :
          LET i == Len(data.handles) + 1
              r == load_split(SPLITS[i], data.mode, data.cache_dir, download_ok)
              h == IF r.raised # "" THEN NewHandle(None) ELSE r.handle[1]
          IN data' = [data EXCEPT !.pc = IF i = Len(SPLITS) THEN "wrap" ELSE "load",
                                  !.raised = IF r.raised # "" THEN r.raised ELSE @,
                                  !.handles = Append(@, h),
                                  !.downloads = @ \o r.downloads]
    /\ UNCHANGED <<table, ctor, fn, call, word_count, vocab_ret, split_ret, client_ret>>

\* Lines 109-111: the next load_split call of load_data; an error it raises
\* leaves load_data.
LoadDataLoad ==
    /\ data.pc = "load"
    /\ \E download_ok \in BOOLEAN :
          LET i == Len(data.handles) + 1
              r == load_split(SPLITS[i], data.mode, data.cache_dir, download_ok)
          IN data' =
               IF r.raised # ""
               THEN [data EXCEPT !.pc = "raised", !.raised = r.raised,
                                 !.downloads = @ \o r.downloads]
               ELSE [data EXCEPT !.pc = IF i = Len(SPLITS) THEN "wrap" ELSE "load",
                                 !.handles = Append(@, r.handle[1]),
                                 !.downloads = @ \o r.downloads]
    /\ UNCHANGED <<table, ctor, fn, call, word_count, vocab_ret, split_ret, client_ret>>

\* Lines 112-114: the returned triple.
LoadDataReturn ==
    /\ data.pc = "wrap"
    /\ data' = [data EXCEPT
                  !.pc = "done",
                  !.ret = Some([i \in 1..3 |->
                                  WithPreprocessClient(data.handles[i], "preprocess_client")])]
    /\ UNCHANGED <<table, ctor, fn, call, word_count, vocab_ret, split_ret, client_ret>>

\* The caller has the triple or the error; load_data can be called again.
LoadDataLeave ==
    /\ data.pc \in {"done", "raised"}
    /\ data' = [pc |-> "idle"]
    /\ UNCHANGED <<table, ctor, fn, call, word_count, vocab_ret, split_ret, client_ret>>

NextLoader ==
    \/ LoadSplitCall
    \/ LoadDataCall
    \/ LoadDataLoad
    \/ LoadDataReturn
    \/ LoadDataLeave

SpecLoader == InitLoader /\ [][NextLoader]_vars

\* C3: load_split fails with ValueError exactly when split is none of
\* 'train', 'held_out', 'test' or mode is not 'sqlite', with or without a
\* cache_dir; no such failure calls maybe_download; each of the three splits
\* in mode 'sqlite' with a successful download returns a handle built from
\* the downloaded path of that split's URL.
C3_Thm ==
    split_ret # None =>
      LET r == split_ret[1]
          bad == r.split \notin {"train", "held_out", "test"} \/ r.mode # "sqlite"
          url == <<"https://storage.googleapis.com/gresearch/fedjax/stackoverflow/stackoverflow_",
                   r.split, ".sqlite">>
      IN /\ (r.raised = "ValueError") <=> bad
         /\ bad => r.downloads = << >>
         /\ (~bad /\ r.download_ok) =>
              /\ r.raised = ""
              /\ r.downloads = <<[url |-> url, cache_dir |-> r.cache_dir]>>
              /\ r.handle = Some([path |-> [url |-> url, cache_dir |-> r.cache_dir],
                                  client_fns |-> << >>])
         /\ r.raised # "" => r.handle = None

C3_Witness ==
    /\ split_ret # None
    /\ split_ret[1].split = "held_out"
    /\ split_ret[1].mode = "sqlite"
    /\ split_ret[1].cache_dir # None
    /\ split_ret[1].download_ok
    /\ split_ret[1].handle # None

\* The handle load_data returns for the split at position i of the triple.
ProcessedHandle(i) ==
    [path |-> [url |-> Url(<<"train", "held_out", "test">>[i]), cache_dir |-> data.cache_dir],
     client_fns |-> <<"preprocess_client">>]

\* C10: load_data loads train, held_out, test in this order and, when all
\* three loads succeed, returns the triple of the three handles with
\* preprocess_client applied; a failing load_split ends load_data with that
\* failure: no later split is loaded, no handle gets preprocess_client and
\* no triple is returned.
C10_Thm ==
    data.pc # "idle" =>
      /\ Len(data.downloads) <= 3
      /\ \A i \in DOMAIN data.downloads :
           data.downloads[i] =
             [url |-> Url(<<"train", "held_out", "test">>[i]), cache_dir |-> data.cache_dir]
      /\ data.pc = "done" =>
           /\ data.raised = ""
           /\ Len(data.downloads) = 3
           /\ data.ret = Some(<<ProcessedHandle(1), ProcessedHandle(2), ProcessedHandle(3)>>)
      /\ data.pc # "done" => data.ret = None
      /\ data.pc = "raised" =>
           /\ data.raised # ""
           /\ Len(data.handles) < 3
           /\ Len(data.downloads) <= Len(data.handles) + 1
           /\ \A i \in DOMAIN data.handles : data.handles[i].client_fns = << >>

\* The load of held_out failed after train was loaded.
C10_Witness ==
    /\ data.pc = "raised"
    /\ Len(data.handles) = 1
    /\ Len(data.downloads) = 2
    /\ data.raised = "DownloadError"

----------------------------------------------------------------------------
(* preprocess_client, checked under SpecClient. *)

ClientIds == {"client_0", "client_1"}
TypeValues == {"question", "answer", "comment"}
ClientTokenStrings == {<< >>, <<"a", " ", "b">>}

RawFields == {"creation_date", "title", "score", "tags", "tokens", "type"}

\* The client records of n examples: type and tokens alone, or all six raw
\* features.
ClientExamples(n) ==
    UNION { { [k \in keys |->
                 IF k = "type" THEN types
                 ELSE IF k = "tokens" THEN tokens
                 ELSE Scores(n)] : keys \in {{"tokens", "type"}, RawFields} }
            : types \in [1..n -> TypeValues], tokens \in [1..n -> ClientTokenStrings] }

\* preprocess_client that labels questions, not answers, with 1.
preprocess_client_Question(client_id, examples) ==
    [k \in {"domain_id", "tokens"} |->
       IF k = "domain_id"
       THEN [i \in DOMAIN examples["type"] |-> IF examples["type"][i] = "question" THEN 1 ELSE 0]
       ELSE examples["tokens"]]

\* preprocess_client(client_id, examples), lines 121-125.
preprocess_client(client_id, examples) ==
    [k \in {"domain_id", "tokens"} |->
       IF k = "domain_id"
       THEN [i \in DOMAIN examples["type"] |-> IF examples["type"][i] = "answer" THEN 1 ELSE 0]
       ELSE examples["tokens"]]

InitClient ==
    /\ client_ret = None
    /\ split_ret = None
    /\ data = [pc |-> "idle"]
    /\ table = None
    /\ ctor = None
    /\ fn = None
    /\ call = None
    /\ word_count = Some(GoodFile)
    /\ vocab_ret = None

\* One call preprocess_client(client_id, examples).
PreprocessClientCall ==
    /\ \E client_id \in ClientIds, n \in 0..MaxClientExamples :
         \E examples \in ClientExamples(n) :
            client_ret' = Some([client_id |-> client_id, examples |-> examples,
                                result |-> preprocess_client(client_id, examples)])
    /\ UNCHANGED <<table, ctor, fn, call, word_count, vocab_ret, split_ret, data>>

NextClient == PreprocessClientCall

SpecClient == InitClient /\ [][NextClient]_vars

\* C7: preprocess_client returns exactly the fields domain_id and tokens;
\* domain_id[i] is 1 when type[i] is 'answer' and 0 otherwise, tokens is the
\* input tokens, every other field is dropped, and the client id has no
\* effect on the result.
C7_Thm ==
    client_ret # None =>
      LET in == client_ret[1].examples
          out == client_ret[1].result
      IN /\ DOMAIN out = {"domain_id", "tokens"}
         /\ Len(out["domain_id"]) = Len(in["type"])
         /\ \A i \in DOMAIN in["type"] :
              /\ in["type"][i] = "answer" => out["domain_id"][i] = 1
              /\ in["type"][i] # "answer" => out["domain_id"][i] = 0
         /\ out["tokens"] = in["tokens"]
         /\ \A c \in ClientIds : preprocess_client(c, in) = out

\* The spec's example: type = ['question', 'answer'] with all raw fields.
C7_Witness ==
    /\ client_ret # None
    /\ DOMAIN client_ret[1].examples = RawFields
    /\ client_ret[1].examples["type"] = <<"question", "answer">>
    /\ client_ret[1].result["domain_id"] = <<0, 1>>

====
